---- MODULE Spec2Model ----
(***************************************************************************)
(* A model of calamine_to_polars (src/src/lib.rs): the two frame builders  *)
(* of ToPolarsDataFrame for Range<T> (to_frame_all_str, to_frame_auto_type)*)
(* and CastColumnType::with_types for DataFrame.                           *)
(*                                                                         *)
(* A sheet is a sequence of rows of equal width; a row is a sequence of    *)
(* cells.  The rows of a sheet are revealed one at a time, as the code's   *)
(* row iterators yield them: `sheet` holds the rows read so far and        *)
(* `nrows` the number of rows the sheet has.                               *)
(***************************************************************************)
EXTENDS Integers, Sequences, FiniteSets, TLC

VARIABLES
    pc,             \* position in the running function
    nrows,          \* number of rows of the sheet (Range::rows().count())
    width,          \* width of the sheet (cells per row)
    sheet,          \* the rows the function has read so far
    header_counts,  \* to_frame_all_str: HashMap<String, usize>
    headers,        \* Vec<String>
    column_types,   \* to_frame_auto_type: Vec<DataType>
    columns,        \* Vec<Vec<String>> / Vec<Column>
    log,            \* to_frame_auto_type: the eprintln! records of phase 3
    result,         \* what the function returned, or that it panicked
    df,             \* with_types: self
    col_and_type,   \* with_types: the (name, type) pairs
    all_columns,    \* with_types: Vec<Column>
    next_col        \* with_types: the outer loop's position in self's columns

vars == <<pc, nrows, width, sheet, header_counts, headers, column_types,
          columns, log, result, df, col_and_type, all_columns, next_col>>

builderVars == <<nrows, width, sheet, header_counts, headers, column_types,
                 columns, log>>
castVars == <<df, col_and_type, all_columns, next_col>>

----------------------------------------------------------------------------
(* Bounds of the model.                                                    *)

MaxWidth == 3       \* to_frame_all_str: widest header row
MaxDataRows == 2    \* to_frame_all_str: most rows after the header
MaxCols == 2        \* to_frame_auto_type: widest sheet
MaxLaterRows == 2   \* to_frame_auto_type: most rows after the sample row
MaxTableCols == 3   \* with_types: widest table
MaxPairs == 2       \* with_types: longest pair list

----------------------------------------------------------------------------
(* calamine cells: Data::{Int, Float, Bool, String, DateTime, Error, Empty}*)
(* A float is held in tenths (15 is 1.5); a datetime as its serial number, *)
(* a negative one standing for a value as_datetime() cannot convert.       *)

Cell(k, v) == <<k, v>>
kind(c) == c[1]
value(c) == c[2]

IntCell == Cell("Int", 42)
FloatCell == Cell("Float", 15)
BoolCell == Cell("Bool", TRUE)
StringCell == Cell("String", "x")
DateTimeCell == Cell("DateTime", 45000)
BadDateTimeCell == Cell("DateTime", -1)
ErrorCell == Cell("Error", "#DIV/0!")
EmptyCell == Cell("Empty", "")

Cells == <<IntCell, FloatCell, BoolCell, StringCell, EmptyCell, ErrorCell,
           DateTimeCell, BadDateTimeCell>>

is_int(c) == kind(c) = "Int"
is_float(c) == kind(c) = "Float"
is_bool(c) == kind(c) = "Bool"
is_string(c) == kind(c) = "String"
is_empty(c) == kind(c) = "Empty"
is_error(c) == kind(c) = "Error"
is_datetime(c) == kind(c) = "DateTime"

(* Display for a cell: cell.to_string() and format!("{}", cell).           *)
FloatText(t) == ToString(t \div 10) \o "." \o ToString(t % 10)

to_string(c) ==
    CASE is_int(c) -> ToString(value(c))
      [] is_float(c) -> FloatText(value(c))
      [] is_bool(c) -> IF value(c) THEN "true" ELSE "false"
      [] is_string(c) -> value(c)
      [] is_datetime(c) -> ToString(value(c))
      [] is_error(c) -> value(c)
      [] OTHER -> ""

(* c.as_datetime().map(|dt| dt.to_string()): a serial number inside the    *)
(* calendar's range renders as a date, any other as None.                  *)
as_datetime_text(c) ==
    IF is_datetime(c) /\ value(c) >= 0
        THEN <<"1900-01-00+" \o ToString(value(c)) \o "d 00:00:00">>
        ELSE <<>>

(* The text to_frame_all_str pushes for a data cell.                       *)
cell_str(c) ==
    IF is_datetime(c)
        THEN (IF as_datetime_text(c) = <<>> THEN "" ELSE as_datetime_text(c)[1])
        ELSE to_string(c)

----------------------------------------------------------------------------
(* polars: values, columns, Column::append and DataFrame::new.             *)

Val(t, v) == <<t, v>>
Null == Val("Null", 0)

Column(name, dtype, values) == [name |-> name, dtype |-> dtype, values |-> values]

Ok(v) == <<"Ok", v>>
is_ok(r) == r[1] = "Ok"
Err(e) == <<"Err", e>>
NoResult == <<"Running", "">>
(* A panic of to_frame_auto_type at sheet row r, column j (both from 1).   *)
Panic(r, j, msg) == <<"Panic", <<r, j, msg>>>>
is_panic(r) == r[1] = "Panic"

(* DataFrame::new(columns): fails on a repeated name and on columns of     *)
(* different lengths.                                                      *)
DataFrameNew(cols) ==
    IF \E i, j \in 1..Len(cols) : i < j /\ cols[i].name = cols[j].name
        THEN Err("Duplicate")
        ELSE IF \E i \in 1..Len(cols) : Len(cols[i].values) # Len(cols[1].values)
            THEN Err("ShapeMismatch")
            ELSE Ok(cols)

----------------------------------------------------------------------------
(* to_frame_all_str                                                        *)

(* The header cells the model draws from: two cells share the text "1",    *)
(* and one already reads like a renamed duplicate of "a".                  *)
HeaderCells == <<Cell("String", "a"), Cell("String", "a_duplicated_1"),
                 Cell("Int", 1), Cell("String", "1")>>

HeaderRows(w) == [1..w -> {HeaderCells[i] : i \in 1..Len(HeaderCells)}]

(* The data rows the model draws from: the cells of Cells in rotation, so  *)
(* that every row mixes kinds and every column sees every kind.            *)
Rotated(w, p) == [j \in 1..w |-> Cells[((p + j - 2) % Len(Cells)) + 1]]
DataRows(w) == {Rotated(w, p) : p \in 1..Len(Cells)}

(* header_counts.entry(text).or_insert(0)                                  *)
entry_or_insert(counts, text) ==
    IF text \in DOMAIN counts THEN counts
    ELSE [t \in DOMAIN counts \cup {text} |->
             IF t = text THEN 0 ELSE counts[t]]

(* The closure's name with the suffix numbered from the count plus one.    *)
header_name_plus1(cell, count) ==
    IF count > 0
        THEN to_string(cell) \o "_duplicated_" \o ToString(count + 1)
        ELSE to_string(cell)

(* The closure's name with no renaming at all.                             *)
header_name_plain(cell, count) == to_string(cell)

(* The closure's `name`: lines 75-79.                                      *)
header_name(cell, count) ==
    IF count > 0
        THEN to_string(cell) \o "_duplicated_" \o ToString(count)
        ELSE to_string(cell)

(* The map over the header row, from cell i on: <<headers, header_counts>>.*)
RECURSIVE dedup(_, _, _, _)
dedup(row, i, counts, acc) ==
    IF i > Len(row) THEN <<acc, counts>>
    ELSE LET text == to_string(row[i])
             c1 == entry_or_insert(counts, text)
             name == header_name(row[i], c1[text])
             c2 == [c1 EXCEPT ![text] = @ + 1]
         IN  dedup(row, i + 1, c2, Append(acc, name))

EmptyMap == [t \in {} |-> 0]

InitCommon ==
    /\ sheet = <<>>
    /\ header_counts = EmptyMap
    /\ headers = <<>>
    /\ column_types = <<>>
    /\ columns = <<>>
    /\ log = <<>>
    /\ result = NoResult

InitCastIdle ==
    /\ df = <<>>
    /\ col_and_type = <<>>
    /\ all_columns = <<>>
    /\ next_col = 1

(* A sheet of no rows, or of a header row and up to MaxDataRows more.      *)
InitAllStr ==
    /\ pc = "all_str"
    /\ \/ nrows = 0 /\ width = 0
       \/ nrows \in 1..(MaxDataRows + 1) /\ width \in 1..MaxWidth
    /\ InitCommon
    /\ InitCastIdle

(* lines 65-71: the sheet has no first row.                                *)
AllStrNoData ==
    /\ pc = "all_str"
    /\ nrows = 0
    /\ result' = Err("No data")
    /\ pc' = "done"
    /\ UNCHANGED builderVars
    /\ UNCHANGED castVars

(* lines 65-87: the header row is read and deduplicated, and one empty     *)
(* Vec<String> is made per header.                                         *)
AllStrHeaders ==
    /\ pc = "all_str"
    /\ nrows >= 1
    /\ \E row \in HeaderRows(width) :
          LET d == dedup(row, 1, EmptyMap, <<>>)
          IN  /\ sheet' = <<row>>
              /\ headers' = d[1]
              /\ header_counts' = d[2]
              /\ columns' = [j \in 1..Len(d[1]) |-> <<>>]
    /\ pc' = "all_str_rows"
    /\ UNCHANGED <<nrows, width, column_types, log, result>>
    /\ UNCHANGED castVars

(* The row's push with empty cells left out.                               *)
push_row_skip_empty(cols, row) ==
    [j \in 1..Len(cols) |->
        IF is_empty(row[j]) THEN cols[j] ELSE Append(cols[j], cell_str(row[j]))]

(* lines 91-100: every cell's text is pushed onto its column.              *)
push_row(cols, row) ==
    [j \in 1..Len(cols) |-> Append(cols[j], cell_str(row[j]))]

(* lines 90-101: one data row is pushed, cell by cell, onto the columns.   *)
AllStrPushRow ==
    /\ pc = "all_str_rows"
    /\ Len(sheet) < nrows
    /\ \E row \in DataRows(width) :
          /\ sheet' = Append(sheet, row)
          /\ columns' = push_row(columns, row)
    /\ UNCHANGED <<pc, nrows, width, header_counts, headers, column_types,
                   log, result>>
    /\ UNCHANGED castVars

(* lines 103-113: the columns are named and the DataFrame is built.        *)
AllStrBuild ==
    /\ pc = "all_str_rows"
    /\ Len(sheet) = nrows
    /\ LET cols == [j \in 1..Len(columns) |->
                       Column(headers[j], "String",
                              [i \in 1..Len(columns[j]) |->
                                  Val("String", columns[j][i])])]
       IN  result' = DataFrameNew(cols)
    /\ pc' = "done"
    /\ UNCHANGED builderVars
    /\ UNCHANGED castVars

NextAllStr ==
    \/ AllStrNoData
    \/ AllStrHeaders
    \/ AllStrPushRow
    \/ AllStrBuild

SpecAllStr == InitAllStr /\ [][NextAllStr]_vars

----------------------------------------------------------------------------
(* to_frame_auto_type                                                      *)

(* Column::append(&other): the other column's values are added when the    *)
(* dtypes agree; a Null-typed other is cast to the column's dtype first;   *)
(* any other pair of dtypes is a SchemaMismatch error.                     *)
append(col, other) ==
    IF other.dtype = col.dtype
        THEN Ok([col EXCEPT !.values = @ \o other.values])
    ELSE IF other.dtype = "Null"
        THEN Ok([col EXCEPT !.values =
                     @ \o [i \in 1..Len(other.values) |-> Val(col.dtype, "null")]])
    ELSE Err("SchemaMismatch")

(* Column::new_empty(name, &DataType::Null): a column of no values.        *)
new_empty(name, dtype) == Column(name, dtype, <<>>)

(* The header rows the model draws from: every column its own name, or     *)
(* every column the same name.                                             *)
AutoHeaderRows(w) ==
    { [j \in 1..w |-> Cell("String", "c" \o ToString(j))],
      [j \in 1..w |-> Cell("String", "c1")] }

(* The rows the model draws from: the odd columns hold one cell and the    *)
(* even columns another (every pair of cells for a sheet two wide).        *)
AutoRows(w) ==
    { [j \in 1..w |-> IF j % 2 = 1 THEN Cells[a] ELSE Cells[b]] :
        a \in 1..Len(Cells), b \in 1..Len(Cells) }

(* The sample cell's arm with an error cell taken as an empty one.         *)
sample_cell_error_as_empty(cell, header) ==
    CASE is_int(cell) ->
            <<"ok", "Int64", Column(header, "Int64", <<Val("Int64", value(cell))>>)>>
      [] is_float(cell) ->
            <<"ok", "Float64", Column(header, "Float64", <<Val("Float64", value(cell))>>)>>
      [] is_bool(cell) ->
            <<"ok", "Boolean", Column(header, "Boolean", <<Val("Boolean", value(cell))>>)>>
      [] is_string(cell) ->
            <<"ok", "String", Column(header, "String", <<Val("String", value(cell))>>)>>
      [] is_empty(cell) \/ is_error(cell) ->
            <<"ok", "Null", Column(header, "String", <<Val("String", "")>>)>>
      [] OTHER -> <<"panic", "Unknown error">>

(* lines 136-166: the match on the sample cell: <<"ok", the column's type  *)
(* tag, the one-value column>> or <<"panic", message>>.                    *)
sample_cell(cell, header) ==
    CASE is_int(cell) ->
            <<"ok", "Int64", Column(header, "Int64", <<Val("Int64", value(cell))>>)>>
      [] is_float(cell) ->
            <<"ok", "Float64", Column(header, "Float64", <<Val("Float64", value(cell))>>)>>
      [] is_bool(cell) ->
            <<"ok", "Boolean", Column(header, "Boolean", <<Val("Boolean", value(cell))>>)>>
      [] is_string(cell) ->
            <<"ok", "String", Column(header, "String", <<Val("String", value(cell))>>)>>
      [] is_empty(cell) ->
            <<"ok", "Null", Column(header, "String", <<Val("String", "")>>)>>
      [] is_error(cell) -> <<"panic", "This cell is error">>
      [] OTHER -> <<"panic", "Unknown error">>

(* lines 134-168: the loop over the sample row from cell j on:             *)
(* <<column_types, columns, result>>, the result a panic or NoResult.      *)
RECURSIVE sample_row(_, _, _, _, _)
sample_row(row, hdrs, j, types, cols) ==
    IF j > Len(row) THEN <<types, cols, NoResult>>
    ELSE LET s == sample_cell(row[j], hdrs[j])
         IN  IF s[1] = "panic" THEN <<types, cols, Panic(2, j, s[2])>>
             ELSE sample_row(row, hdrs, j + 1,
                             [types EXCEPT ![j] = s[2]], Append(cols, s[3]))

LogRecord(row_index, header, col_idx, expected) ==
    <<row_index, header, col_idx, expected>>

(* A failed append that is logged and skipped: lines 180-189, 200-209.     *)
append_or_log(cols, lg, j, new_column, rec) ==
    LET a == append(cols[j], new_column)
    IN  IF is_ok(a) THEN <<"ok", [cols EXCEPT ![j] = a[2]], lg>>
        ELSE <<"ok", cols, Append(lg, rec)>>

(* An append that must succeed: .expect(..) and .unwrap(), lines 223-238.  *)
append_or_panic(cols, lg, j, new_column, msg) ==
    LET a == append(cols[j], new_column)
    IN  IF is_ok(a) THEN <<"ok", [cols EXCEPT ![j] = a[2]], lg>>
        ELSE <<"panic", msg>>

(* The phase 3 match with the string arm logging a failed append.          *)
ingest_cell_string_logs(cols, lg, cell, row_index, j, header) ==
    CASE is_int(cell) ->
            append_or_log(cols, lg, j,
                Column(header, "Int64", <<Val("Int64", value(cell))>>),
                LogRecord(row_index, header, j - 1, "expected int"))
      [] is_float(cell) ->
            append_or_log(cols, lg, j,
                Column(header, "Float64", <<Val("Float64", value(cell))>>),
                LogRecord(row_index, header, j - 1, "expected float"))
      [] is_bool(cell) ->
            append_or_panic(cols, lg, j,
                Column(header, "Boolean", <<Val("Boolean", value(cell))>>),
                "expected bool")
      [] is_string(cell) ->
            append_or_log(cols, lg, j,
                Column(header, "String", <<Val("String", value(cell))>>),
                LogRecord(row_index, header, j - 1, "expected string"))
      [] is_empty(cell) ->
            append_or_panic(cols, lg, j, new_empty(header, "Null"), "unwrap")
      [] OTHER -> <<"panic", "Error when reading all data...">>

(* The phase 3 match with the integer arm expecting the append.            *)
ingest_cell_int_expects(cols, lg, cell, row_index, j, header) ==
    CASE is_int(cell) ->
            append_or_panic(cols, lg, j,
                Column(header, "Int64", <<Val("Int64", value(cell))>>),
                "expected int")
      [] is_float(cell) ->
            append_or_log(cols, lg, j,
                Column(header, "Float64", <<Val("Float64", value(cell))>>),
                LogRecord(row_index, header, j - 1, "expected float"))
      [] is_bool(cell) ->
            append_or_panic(cols, lg, j,
                Column(header, "Boolean", <<Val("Boolean", value(cell))>>),
                "expected bool")
      [] is_string(cell) ->
            append_or_panic(cols, lg, j,
                Column(header, "String", <<Val("String", value(cell))>>),
                "expected string")
      [] is_empty(cell) ->
            append_or_panic(cols, lg, j, new_empty(header, "Null"), "unwrap")
      [] OTHER -> <<"panic", "Error when reading all data...">>

(* The phase 3 match with the float arm expecting the append.              *)
ingest_cell_float_expects(cols, lg, cell, row_index, j, header) ==
    CASE is_int(cell) ->
            append_or_log(cols, lg, j,
                Column(header, "Int64", <<Val("Int64", value(cell))>>),
                LogRecord(row_index, header, j - 1, "expected int"))
      [] is_float(cell) ->
            append_or_panic(cols, lg, j,
                Column(header, "Float64", <<Val("Float64", value(cell))>>),
                "expected float")
      [] is_bool(cell) ->
            append_or_panic(cols, lg, j,
                Column(header, "Boolean", <<Val("Boolean", value(cell))>>),
                "expected bool")
      [] is_string(cell) ->
            append_or_panic(cols, lg, j,
                Column(header, "String", <<Val("String", value(cell))>>),
                "expected string")
      [] is_empty(cell) ->
            append_or_panic(cols, lg, j, new_empty(header, "Null"), "unwrap")
      [] OTHER -> <<"panic", "Error when reading all data...">>

(* lines 175-243: the phase 3 match on one cell of sheet column j:         *)
(* <<"ok", columns, log>> or <<"panic", message>>.                         *)
ingest_cell(cols, lg, cell, row_index, j, header) ==
    CASE is_int(cell) ->
            append_or_log(cols, lg, j,
                Column(header, "Int64", <<Val("Int64", value(cell))>>),
                LogRecord(row_index, header, j - 1, "expected int"))
      [] is_float(cell) ->
            append_or_log(cols, lg, j,
                Column(header, "Float64", <<Val("Float64", value(cell))>>),
                LogRecord(row_index, header, j - 1, "expected float"))
      [] is_bool(cell) ->
            append_or_panic(cols, lg, j,
                Column(header, "Boolean", <<Val("Boolean", value(cell))>>),
                "expected bool")
      [] is_string(cell) ->
            append_or_panic(cols, lg, j,
                Column(header, "String", <<Val("String", value(cell))>>),
                "expected string")
      [] is_empty(cell) ->
            append_or_panic(cols, lg, j, new_empty(header, "Null"), "unwrap")
      [] OTHER -> <<"panic", "Error when reading all data...">>

(* lines 173-244: the loop over one later row (sheet row r) from cell j    *)
(* on: <<columns, log, result>>.                                           *)
RECURSIVE ingest_row(_, _, _, _, _, _)
ingest_row(row, hdrs, r, j, cols, lg) ==
    IF j > Len(row) THEN <<cols, lg, NoResult>>
    ELSE LET s == ingest_cell(cols, lg, row[j], r - 3, j, hdrs[j])
         IN  IF s[1] = "panic" THEN <<cols, lg, Panic(r, j, s[2])>>
             ELSE ingest_row(row, hdrs, r, j + 1, s[2], s[3])

(* DataFrame::new(columns)? replaced by a constructor that checks nothing. *)
build_frame_unchecked(cols) == Ok(cols)

(* line 247: DataFrame::new(columns)?                                      *)
build_frame(cols) == DataFrameNew(cols)

(* A sheet of no rows, or of up to MaxLaterRows rows after the header and  *)
(* the sample row.                                                         *)
InitAuto ==
    /\ pc = "auto"
    /\ \/ nrows = 0 /\ width = 0
       \/ nrows \in 1..(MaxLaterRows + 2) /\ width \in 1..MaxCols
    /\ InitCommon
    /\ InitCastIdle

(* lines 120-123: the sheet has no first row.                              *)
AutoNoData ==
    /\ pc = "auto"
    /\ nrows = 0
    /\ result' = Err("No data")
    /\ pc' = "done"
    /\ UNCHANGED builderVars
    /\ UNCHANGED castVars

(* lines 117-131: the header row is read; every column's type is Null.     *)
AutoHeaders ==
    /\ pc = "auto"
    /\ nrows >= 1
    /\ \E row \in AutoHeaderRows(width) :
          /\ sheet' = <<row>>
          /\ headers' = [j \in 1..Len(row) |-> to_string(row[j])]
          /\ column_types' = [j \in 1..Len(row) |-> "Null"]
    /\ pc' = "auto_sample"
    /\ UNCHANGED <<nrows, width, header_counts, columns, log, result>>
    /\ UNCHANGED castVars

(* line 134: self.rows().nth(1).unwrap() on a sheet of one row.            *)
AutoNoSample ==
    /\ pc = "auto_sample"
    /\ nrows = 1
    /\ result' = Panic(2, 0, "unwrap on None")
    /\ pc' = "done"
    /\ UNCHANGED builderVars
    /\ UNCHANGED castVars

(* lines 133-169: phase 2 on the sample row, then the dbg! of a DataFrame  *)
(* of the one-value columns, unwrapped.                                    *)
AutoSample ==
    /\ pc = "auto_sample"
    /\ nrows >= 2
    /\ \E row \in AutoRows(width) :
          LET s == sample_row(row, headers, 1, column_types, <<>>)
              dbg == DataFrameNew(s[2])
          IN  /\ sheet' = Append(sheet, row)
              /\ column_types' = s[1]
              /\ columns' = s[2]
              /\ IF is_panic(s[3])
                    THEN result' = s[3] /\ pc' = "done"
                 ELSE IF ~is_ok(dbg)
                    THEN result' = Panic(2, 0, dbg[2]) /\ pc' = "done"
                 ELSE result' = result /\ pc' = "auto_rows"
    /\ UNCHANGED <<nrows, width, header_counts, headers, log>>
    /\ UNCHANGED castVars

(* lines 172-245: phase 3 on the next row of the sheet.                    *)
AutoIngestRow ==
    /\ pc = "auto_rows"
    /\ Len(sheet) < nrows
    /\ \E row \in AutoRows(width) :
          LET s == ingest_row(row, headers, Len(sheet) + 1, 1, columns, log)
          IN  /\ sheet' = Append(sheet, row)
              /\ columns' = s[1]
              /\ log' = s[2]
              /\ result' = s[3]
              /\ pc' = IF is_panic(s[3]) THEN "done" ELSE pc
    /\ UNCHANGED <<nrows, width, header_counts, headers, column_types>>
    /\ UNCHANGED castVars

(* lines 247-249: the DataFrame is built from the columns, or the error of *)
(* DataFrame::new is returned.                                             *)
AutoBuild ==
    /\ pc = "auto_rows"
    /\ Len(sheet) = nrows
    /\ result' = build_frame(columns)
    /\ pc' = "done"
    /\ UNCHANGED builderVars
    /\ UNCHANGED castVars

NextAuto ==
    \/ AutoNoData
    \/ AutoHeaders
    \/ AutoNoSample
    \/ AutoSample
    \/ AutoIngestRow
    \/ AutoBuild

SpecAuto == InitAuto /\ [][NextAuto]_vars

----------------------------------------------------------------------------
(* CastColumnType::with_types                                              *)

(* The integers a text can parse to.                                       *)
ParseRange == 0..99

(* str -> i64, None when the text is not a number.                         *)
ParseInt(text) ==
    IF \E n \in ParseRange : ToString(n) = text
        THEN <<CHOOSE n \in ParseRange : ToString(n) = text>>
        ELSE <<>>

(* A value's cast; a value the target type cannot hold becomes null.       *)
cast_value(val, dtype) ==
    CASE val[1] = dtype -> val
      [] val[1] = "String" /\ dtype = "Int64" ->
            (IF ParseInt(val[2]) = <<>> THEN Val("Int64", "null")
             ELSE Val("Int64", ParseInt(val[2])[1]))
      [] val[1] = "String" /\ dtype = "Float64" ->
            (IF ParseInt(val[2]) = <<>> THEN Val("Float64", "null")
             ELSE Val("Float64", 10 * ParseInt(val[2])[1]))
      [] val[1] = "Int64" /\ dtype = "String" -> Val("String", ToString(val[2]))
      [] val[1] = "Int64" /\ dtype = "Float64" -> Val("Float64", 10 * val[2])
      [] OTHER -> Val(dtype, "null")

(* column.cast(dtype): polars' non-strict cast, same name, same length.    *)
cast(col, dtype) ==
    Column(col.name, dtype,
           [i \in 1..Len(col.values) |-> cast_value(col.values[i], dtype)])

TableName(j) == "c" \o ToString(j)

(* The tables the model draws from: column j is named cj and is a String   *)
(* column or an Int64 column.                                              *)
InputColumns(j) ==
    { Column(TableName(j), "String", <<Val("String", "7"), Val("String", "x")>>),
      Column(TableName(j), "Int64", <<Val("Int64", 7), Val("Int64", 8)>>) }

Tables ==
    UNION { {t \in [1..w -> UNION {InputColumns(j) : j \in 1..w}] :
                \A j \in 1..w : t[j] \in InputColumns(j)} : w \in 0..MaxTableCols }

(* The pairs the model draws from: two names of table columns and one name *)
(* no table has, each with each target type.                               *)
PairNames == {TableName(1), TableName(2), "zz"}
TargetTypes == {"Int64", "Float64", "String"}
Pairs == PairNames \X TargetTypes
PairLists == UNION { [1..n -> Pairs] : n \in 0..MaxPairs }

(* lines 28-33: the inner loop over the pairs from pair k on; every pair   *)
(* that names the column pushes a cast of it: <<all_columns, added>>.      *)
RECURSIVE push_casts(_, _, _, _, _)
push_casts(column, pairs, k, acc, added) ==
    IF k > Len(pairs) THEN <<acc, added>>
    ELSE IF pairs[k][1] = column.name
        THEN push_casts(column, pairs, k + 1,
                        Append(acc, cast(column, pairs[k][2])), TRUE)
        ELSE push_casts(column, pairs, k + 1, acc, added)

(* lines 26-37: one turn of the outer loop.                                *)
push_column(column, pairs, acc) ==
    LET p == push_casts(column, pairs, 1, acc, FALSE)
    IN  IF ~p[2] THEN Append(p[1], column) ELSE p[1]

InitCast ==
    /\ pc = "with_types"
    /\ df \in Tables
    /\ col_and_type \in PairLists
    /\ all_columns = <<>>
    /\ next_col = 1
    /\ nrows = 0
    /\ width = 0
    /\ InitCommon

(* lines 26-37: the next column of self is pushed, cast or as it is.       *)
CastColumn ==
    /\ pc = "with_types"
    /\ next_col <= Len(df)
    /\ all_columns' = push_column(df[next_col], col_and_type, all_columns)
    /\ next_col' = next_col + 1
    /\ UNCHANGED <<pc, result, df, col_and_type>>
    /\ UNCHANGED builderVars

(* line 38: Ok(DataFrame::new(all_columns).unwrap())                       *)
CastBuild ==
    /\ pc = "with_types"
    /\ next_col > Len(df)
    /\ LET d == DataFrameNew(all_columns)
       IN  result' = IF is_ok(d) THEN d ELSE Panic(0, 0, d[2])
    /\ pc' = "done"
    /\ UNCHANGED castVars
    /\ UNCHANGED builderVars

NextCast ==
    \/ CastColumn
    \/ CastBuild

SpecCast == InitCast /\ [][NextCast]_vars

----------------------------------------------------------------------------
(* Claims about to_frame_all_str, checked under SpecAllStr.                *)

HeadersDone == Len(sheet) >= 1
HeaderRow == sheet[1]
Texts(row) == [i \in 1..Len(row) |-> to_string(row[i])]

(* How many cells of row[1..i] read as row[i] does.                        *)
Occurrence(row, i) ==
    Cardinality({j \in 1..i : to_string(row[j]) = to_string(row[i])})

(* C3: the deduplicated header has the row's length; the k-th occurrence   *)
(* of a text is emitted unchanged for k = 1 and as text_duplicated_(k-1)   *)
(* for k > 1.                                                              *)
C3_KthOccurrence ==
    HeadersDone =>
        /\ Len(headers) = Len(HeaderRow)
        /\ \A i \in 1..Len(HeaderRow) :
              LET k == Occurrence(HeaderRow, i)
                  text == to_string(HeaderRow[i])
              IN  headers[i] = IF k = 1 THEN text
                               ELSE text \o "_duplicated_" \o ToString(k - 1)

C3_Witness ==
    /\ HeadersDone
    /\ Texts(HeaderRow) = <<"a", "a", "a">>
    /\ headers = <<"a", "a_duplicated_1", "a_duplicated_2">>

PairwiseDistinct(names) ==
    \A i, j \in 1..Len(names) : i < j => names[i] # names[j]

(* C4 as stated: the deduplicated header names are pairwise distinct for   *)
(* every header row.                                                       *)
C4_AlwaysDistinct == HeadersDone => PairwiseDistinct(headers)

(* Some cell of the row already reads as the renamed duplicate of a cell   *)
(* of the row.                                                             *)
ReadsAsRenamed(row) ==
    \E i, j \in 1..Len(row) : \E n \in 1..Len(row) :
        to_string(row[i]) = to_string(row[j]) \o "_duplicated_" \o ToString(n)

(* C4 as amended: the names are pairwise distinct when no cell of the row  *)
(* reads as "{t}_duplicated_{n}" for the text t of a cell of the row, and  *)
(* a table that is returned never has two columns of one name.             *)
C4_DistinctUnlessRenamedText ==
    /\ (HeadersDone /\ ~ReadsAsRenamed(HeaderRow)) => PairwiseDistinct(headers)
    /\ is_ok(result) =>
          PairwiseDistinct([j \in 1..Len(result[2]) |-> result[2][j].name])

C4_Witness ==
    /\ HeadersDone
    /\ ~ReadsAsRenamed(HeaderRow)
    /\ \E i, j \in 1..Len(HeaderRow) :
          i < j /\ to_string(HeaderRow[i]) = to_string(HeaderRow[j])
    /\ is_ok(result)

(* C5: the table returned has one String column per header cell, in header *)
(* order, each of length n - 1 for a sheet of n rows.                      *)
C5_AllStrShape ==
    is_ok(result) =>
        LET t == result[2]
        IN  /\ nrows >= 1
            /\ Len(sheet) = nrows
            /\ Len(t) = width
            /\ Len(t) = Len(HeaderRow)
            /\ \A j \in 1..Len(t) :
                  /\ t[j].name = headers[j]
                  /\ t[j].dtype = "String"
                  /\ Len(t[j].values) = nrows - 1
                  /\ \A i \in 1..Len(t[j].values) : t[j].values[i][1] = "String"

C5_Witness ==
    /\ is_ok(result)
    /\ nrows = 3
    /\ width = 3
    /\ \E j \in 1..width : is_empty(sheet[2][j])
    /\ \E j \in 1..width : is_datetime(sheet[3][j])

----------------------------------------------------------------------------
(* Claims about to_frame_auto_type, checked under SpecAuto.                *)

(* The cell of sheet row r, column j went through the phase 3 match and    *)
(* the build went on.                                                      *)
Processed(r, j) ==
    /\ r \in 3..Len(sheet)
    /\ (is_panic(result) /\ r = Len(sheet)) => j < result[2][2]

(* The build panicked at the cell of sheet row r, column j.                *)
PanickedAt(r, j) ==
    /\ is_panic(result)
    /\ result[2][1] = r
    /\ result[2][2] = j

Reached(r, j) == Processed(r, j) \/ (r \in 3..Len(sheet) /\ PanickedAt(r, j))

(* The dtype of the one-value column phase 3 makes of a cell.              *)
KindType(c) ==
    CASE is_int(c) -> "Int64"
      [] is_float(c) -> "Float64"
      [] is_bool(c) -> "Boolean"
      [] is_string(c) -> "String"
      [] is_empty(c) -> "Null"
      [] OTHER -> "None"

Logged(r, j, expected) ==
    \E i \in 1..Len(log) : log[i] = LogRecord(r - 3, headers[j], j - 1, expected)

(* The later cells of column j that were processed and are of kind-type t. *)
ProcessedOfType(j, t) ==
    {r \in 3..Len(sheet) : Processed(r, j) /\ KindType(sheet[r][j]) = t}

SampledInt(j) == Len(sheet) >= 2 /\ j <= Len(columns) /\ is_int(sheet[2][j])
SampledString(j) == Len(sheet) >= 2 /\ j <= Len(columns) /\ is_string(sheet[2][j])

(* C1 as stated: under an integer sample, a later string cell of the       *)
(* column is dropped and the build goes on.                                *)
C1_StringCellDropped ==
    \A j \in 1..width : \A r \in 3..Len(sheet) :
        (SampledInt(j) /\ is_string(sheet[r][j]) /\ Reached(r, j))
            => Processed(r, j)

(* C1 as amended: an integer sample fixes the column to Int64; a later     *)
(* string cell of the column aborts the build at that cell; a later float  *)
(* cell is logged and dropped, so the column holds the sample and the      *)
(* later integer cells only.                                               *)
C1_IntSampleStringAborts ==
    \A j \in 1..width :
        SampledInt(j) =>
            /\ column_types[j] = "Int64"
            /\ columns[j].dtype = "Int64"
            /\ \A r \in 3..Len(sheet) :
                  /\ (is_string(sheet[r][j]) /\ Reached(r, j))
                        => (PanickedAt(r, j) /\ result[2][3] = "expected string")
                  /\ (is_float(sheet[r][j]) /\ Reached(r, j))
                        => (Processed(r, j) /\ Logged(r, j, "expected float"))
            /\ Len(columns[j].values) = 1 + Cardinality(ProcessedOfType(j, "Int64"))

C1_Witness ==
    /\ SampledInt(1)
    /\ Len(sheet) = 4
    /\ is_float(sheet[3][1])
    /\ Processed(3, 1)
    /\ is_string(sheet[4][1])
    /\ PanickedAt(4, 1)

(* C2 as stated: under a string sample, a later integer cell of the column *)
(* aborts the build at that cell.                                          *)
C2_IntCellAborts ==
    \A j \in 1..width : \A r \in 3..Len(sheet) :
        (SampledString(j) /\ is_int(sheet[r][j]) /\ Reached(r, j))
            => PanickedAt(r, j)

(* C2 as amended: a string sample fixes the column to String; a later      *)
(* integer cell of the column is logged and dropped and the build goes on  *)
(* with the next cell, so the column holds the sample and the later string *)
(* cells only.                                                             *)
C2_StringSampleIntLogged ==
    \A j \in 1..width :
        SampledString(j) =>
            /\ column_types[j] = "String"
            /\ columns[j].dtype = "String"
            /\ \A r \in 3..Len(sheet) :
                  (is_int(sheet[r][j]) /\ Reached(r, j))
                      => (Processed(r, j) /\ Logged(r, j, "expected int"))
            /\ Len(columns[j].values) = 1 + Cardinality(ProcessedOfType(j, "String"))

C2_Witness ==
    /\ SampledString(1)
    /\ Len(sheet) = 4
    /\ is_int(sheet[3][1])
    /\ is_string(sheet[4][1])
    /\ pc = "done"
    /\ is_ok(result)
    /\ Len(result[2][1].values) = 2

Ragged(cols) ==
    \E i, j \in 1..Len(cols) : Len(cols[i].values) # Len(cols[j].values)

Built == pc = "done" /\ nrows >= 2 /\ ~is_panic(result)

(* C7: a table that is returned has columns of one length, and columns     *)
(* that end ingestion with different lengths make the build fail.          *)
C7_EqualLengthsOrError ==
    Built =>
        /\ is_ok(result) => (result[2] = columns /\ ~Ragged(result[2]))
        /\ Ragged(columns) => result = Err("ShapeMismatch")

C7_Witness ==
    /\ Built
    /\ Ragged(columns)
    /\ result = Err("ShapeMismatch")

(* C8: an error cell in the sample row aborts the build in phase 2: no     *)
(* later row is read, nothing is appended or logged, no table is returned. *)
C8_ErrorSampleAborts ==
    \A j \in 1..width :
        (Len(sheet) >= 2 /\ is_error(sheet[2][j])) =>
            /\ pc = "done"
            /\ is_panic(result)
            /\ result[2][1] = 2
            /\ result[2][2] \in 1..j
            /\ Len(sheet) = 2
            /\ Len(columns) < j
            /\ \A k \in 1..Len(columns) : Len(columns[k].values) = 1
            /\ log = <<>>

C8_Witness ==
    /\ nrows >= 3
    /\ width = 2
    /\ Len(sheet) = 2
    /\ is_int(sheet[2][1])
    /\ is_error(sheet[2][2])
    /\ PanickedAt(2, 2)

(* C9 as stated: every empty cell of phase 3 adds one value to its column, *)
(* so a column whose later cells are all empty is as long as the rows read *)
(* after the header.                                                       *)
C9_EmptyCellGrowsColumn ==
    \A j \in 1..width :
        ( /\ Len(sheet) >= 3
          /\ ~is_panic(result)
          /\ \A r \in 3..Len(sheet) : is_empty(sheet[r][j]) )
        => Len(columns[j].values) = Len(sheet) - 1

(* C10: in phase 3 a failing append of an integer or float cell is logged  *)
(* and skipped, and a failing append of a boolean or string cell aborts    *)
(* the build, whatever the column's type.                                  *)
C10_FatalByCellKind ==
    /\ \A j \in 1..width : \A r \in 3..Len(sheet) :
          LET c == sheet[r][j]
              mismatch == KindType(c) # columns[j].dtype
          IN  Reached(r, j) =>
                /\ (is_int(c) /\ mismatch)
                      => (Processed(r, j) /\ Logged(r, j, "expected int"))
                /\ (is_float(c) /\ mismatch)
                      => (Processed(r, j) /\ Logged(r, j, "expected float"))
                /\ ((is_bool(c) \/ is_string(c)) /\ mismatch) => PanickedAt(r, j)
    /\ (Len(sheet) >= 3) =>
          \A j \in 1..width :
              Len(columns[j].values) =
                  1 + Cardinality(ProcessedOfType(j, columns[j].dtype))

C10_Witness ==
    /\ width = 2
    /\ Len(sheet) = 3
    /\ is_bool(sheet[2][1])
    /\ is_int(sheet[3][1])
    /\ Processed(3, 1)
    /\ Len(log) = 1
    /\ is_float(sheet[2][2])
    /\ is_string(sheet[3][2])
    /\ PanickedAt(3, 2)

----------------------------------------------------------------------------
(* Claims about with_types, checked under SpecCast.                        *)

Named(name) == \E k \in 1..Len(col_and_type) : col_and_type[k][1] = name

(* C6 as stated: for every table and every pair list, one that names a     *)
(* column the table lacks or one column twice included, with_types returns *)
(* a table of the same column names in the same order, and a column's type *)
(* differs from the input's only if the list names it.                     *)
C6_SameColumnsAnyPairList ==
    (pc = "done") =>
        /\ is_ok(result)
        /\ Len(result[2]) = Len(df)
        /\ \A j \in 1..Len(df) :
              /\ result[2][j].name = df[j].name
              /\ (result[2][j].dtype # df[j].dtype) => Named(df[j].name)

====
